---- MODULE Spec2Model ----
(***************************************************************************)
(* The creation job pipeline of StoriesWall (src/main.py): the per-user    *)
(* conversational state machine, the pending-creation store, the job       *)
(* queue and the processing workers.                                       *)
(*                                                                         *)
(* The program is one asyncio event loop.  A coroutine runs without        *)
(* interruption between two awaits that really suspend (a Bot API call, a  *)
(* download, asyncio.to_thread, asyncio.sleep, Queue.get on an empty       *)
(* queue).  Awaits that never suspend (MemoryStorage's set_state/clear,    *)
(* Queue.put on the unbounded job_queue) are part of the step that         *)
(* contains them.  Each action below is one such uninterrupted step: the   *)
(* start of a handler up to its first suspension, or the resumption of a   *)
(* suspended coroutine up to its next suspension or its end.  A Bot API    *)
(* call either returns (ok = TRUE) or raises (ok = FALSE).                 *)
(***************************************************************************)
EXTENDS Integers, Sequences, FiniteSets, Bags, TLC

(* ----------------------------- bounds ---------------------------------- *)
\* scratch directories created over one run (uploads that reach mkdir)
MaxDirs == 2
\* handler coroutines suspended at an await at the same time
MaxTasks == 2
\* size of the worker pool explored by SpecW
MaxWorkers == 2
\* largest created_count a user starts with in SpecPrice
MaxCount == 3
\* largest width and height, in pixels, of a source image in SpecScale
MaxSide == 8

(* ------------------------ program constants ---------------------------- *)
PRICE_21_PARTS == 15
PRICE_AFTER_2_FREE == 10
PRICE_LARGE_FILE == 10
MAX_CONCURRENT_WORKERS == 1
\* the literals of "created_count >= 2" and "parts == 21"
FREE_CREATIONS == 2
MAX_PARTS == 21
\* heavy_processing_task's PIECE_WIDTH, PIECE_HEIGHT and GRID_COLS
PIECE_WIDTH == 1080
PIECE_HEIGHT == 1342
GRID_COLS == 3
\* heavy_processing_task's TARGET_WIDTH and TARGET_HEIGHT
TARGET_WIDTH == 1080
TARGET_HEIGHT == 1920

\* created_count of every user in user_data.json when the program starts: one
\* free creation is left
InitialCount == 1

Users == {1, 2}
ADMIN_IDS == {2}
is_admin(u) == u \in ADMIN_IDS

\* part counts offered by get_parts_keyboard that the model feeds in
PartsInputs == {3, 21}
\* every part count offered by get_parts_keyboard
AllParts == {3, 6, 9, 12, 15, 18, 21}
FitInputs == {"cover"}
LargeInputs == {FALSE}

\* CreateStates; "none" is the cleared state (Idle)
CreateStates ==
    {"none", "waiting_image", "waiting_parts_selection", "waiting_fit_mode",
     "waiting_final_confirmation", "waiting_payment"}

DirIds == 1..MaxDirs
WorkerIds == 1..MaxWorkers

VARIABLES
    fsm,            \* FSMContext state of each user
    pending,        \* pending_creations.pending: user -> creation_data
    dirs,           \* scratch directories that exist under TEMP_DIR
    outputs,        \* scratch directories that hold an output/ subdirectory
    nextDir,        \* directories created so far (uuid4 never repeats)
    queue,          \* job_queue
    W,              \* workers started by main()
    wpc,            \* where each processing_worker is suspended
    wjob,           \* the job each processing_worker holds
    created_count,  \* user_db.data[uid]["created_count"]
    total_creations,\* user_db.stats["total_creations"]
    delivered,      \* history: archives send_document delivered to each user
    tiling,         \* heavy_processing_task: its arguments and the resize it computed
    tasks,          \* handler coroutines suspended at an await
    invoices,       \* unpaid invoices sent to each user (their amounts)
    payButton       \* price on the "pay_<price>" button shown to a user, 0: none

vars ==
    <<fsm, pending, dirs, outputs, nextDir, queue, W, wpc, wjob, created_count,
      total_creations, delivered, tiling, tasks, invoices, payButton>>

(* ------------------------------ records -------------------------------- *)
\* No entry for the user in pending_creations.pending
NoRec == [temp_dir_path |-> 0]

\* The dict stored by handle_image; "parts" = 0 and "fit_mode" = "unset"
\* stand for a key that is not in the dict yet.  Two history fields ride with
\* it: quoted, the total_price handle_create_now last computed for it (-1:
\* none), and button_gone, whether the "create_now" button of its confirmation
\* message is gone (the message was deleted, or edited into the price list).
NewCreation(d, large) ==
    [temp_dir_path |-> d, parts |-> 0, fit_mode |-> "unset", is_large_file |-> large,
     quoted |-> -1, button_gone |-> FALSE]

NoJob == [user_id |-> 0]

\* No call of heavy_processing_task whose image size is followed
NoTiling == [parts |-> 0]

\* The keys of creation_data that the program reads (its history fields left out)
Data(rec) ==
    [temp_dir_path |-> rec.temp_dir_path, parts |-> rec.parts,
     fit_mode |-> rec.fit_mode, is_large_file |-> rec.is_large_file]

\* creation_data as a coroutine holds it: the dict with the price last quoted
\* for it, without the state of its confirmation message
Dict(rec) ==
    [temp_dir_path |-> rec.temp_dir_path, parts |-> rec.parts,
     fit_mode |-> rec.fit_mode, is_large_file |-> rec.is_large_file,
     quoted |-> rec.quoted]

\* The dict built by add_to_queue, with three history fields: seq, its
\* submission number, counted from the oldest job not yet finished; quoted,
\* the price last quoted for its creation (-1: none); archive_sent, whether
\* send_document has delivered its archive.
NewJob(u, data, paid, n) ==
    [user_id |-> u, creation_data |-> Data(data), is_paid |-> paid, seq |-> n,
     quoted |-> data.quoted, archive_sent |-> FALSE]

\* A suspended handler coroutine and its locals; st is a history field: for
\* add_to_queue, the user's FSM state when successful_payment was dispatched;
\* for handle_image, "cancelled" when a cancel_creation of the user has run
\* since it was suspended and the user has not asked to start a creation
\* since; "-" elsewhere.
Task(h, u, data, d, price, paid, amt, st) ==
    [h |-> h, u |-> u, creation_data |-> data, temp_user_dir |-> d,
     total_price |-> price, is_paid |-> paid, amount |-> amt, st |-> st]

\* tasks is the bag of the suspended handler coroutines
Suspended == BagToSet(tasks)
HasFreeSlot == BagCardinality(tasks) < MaxTasks
Spawn(task) == tasks (+) SetToBag({task})
SpawnIn(others, task) == others (+) SetToBag({task})
EndTask(t) == tasks (-) SetToBag({t})
Become(t, task) == EndTask(t) (+) SetToBag({task})

(* --------------------------- pure helpers ------------------------------ *)
\* A price computation that charges from the fourth creation on
TotalPriceLate(count, admin, parts, large) ==
    (IF count > FREE_CREATIONS /\ ~admin THEN PRICE_AFTER_2_FREE ELSE 0)
    + (IF parts = MAX_PARTS /\ ~admin THEN PRICE_21_PARTS ELSE 0)
    + (IF large /\ ~admin THEN PRICE_LARGE_FILE ELSE 0)

\* handle_create_now's price computation
TotalPrice(count, admin, parts, large) ==
    (IF count >= FREE_CREATIONS /\ ~admin THEN PRICE_AFTER_2_FREE ELSE 0)
    + (IF parts = MAX_PARTS /\ ~admin THEN PRICE_21_PARTS ELSE 0)
    + (IF large /\ ~admin THEN PRICE_LARGE_FILE ELSE 0)

\* A remove() that leaves every directory in place
KeepDirs(ds, u, cleanup_files) == ds

\* PendingCreation.remove: the directories left after remove(user_id, cleanup_files)
RemoveDirs(ds, u, cleanup_files) ==
    IF pending[u] # NoRec /\ cleanup_files
    THEN ds \ {pending[u].temp_dir_path}
    ELSE ds

\* A remove() that leaves the record in the store
KeepPending(u) == pending

\* PendingCreation.remove: the store after remove(user_id, ...)
RemovePending(u) == [pending EXCEPT ![u] = NoRec]

\* A has_pending that never finds a record
NeverPending(u) == FALSE

\* PendingCreation.has_pending
has_pending(u) == pending[u] # NoRec

\* PendingCreation.add
AddPending(u, data) == [pending EXCEPT ![u] = data]

\* pending_creations.get returns the stored dict itself, and add_to_queue keeps
\* it across its send_message: an assignment to a key of the dict is seen by
\* every coroutine that holds it.  A dict is identified by its temp_dir_path.
Shared(rec) ==
    BagOfAll(LAMBDA x : IF x.h = "atq_send" /\ x.creation_data.temp_dir_path = rec.temp_dir_path
                        THEN [x EXCEPT !.creation_data = Dict(rec)]
                        ELSE x,
             tasks)

\* History kept with the suspended handle_image coroutines of user u: mark is
\* "cancelled" once a cancel_creation of the user has run while they were
\* suspended, and "-" again at the user's next request to start a creation
MarkUploads(u, mark) ==
    BagOfAll(LAMBDA x : IF x.u = u /\ x.h \in {"img_download", "img_reject", "img_answer"}
                        THEN [x EXCEPT !.st = mark]
                        ELSE x,
             tasks)

\* The jobs that were put on job_queue and whose task_done() is still to come
LiveJobs ==
    {queue[i] : i \in 1..Len(queue)} \cup {wjob[w] : w \in {x \in WorkerIds : wjob[x] # NoJob}}

\* The submission number of the next job
NextSeq ==
    IF LiveJobs = {} THEN 1
    ELSE 1 + (CHOOSE n \in {j.seq : j \in LiveJobs} : \A j \in LiveJobs : j.seq <= n)

\* A put at the head of the queue (LIFO)
QueuePutFront(q, job) == <<job>> \o q

\* asyncio.Queue.put on job_queue (FIFO: appended at the tail)
QueuePut(q, job) == Append(q, job)

(* ------------------------------- Init ---------------------------------- *)
InitCommon ==
    /\ fsm = [u \in Users |-> "none"]
    /\ pending = [u \in Users |-> NoRec]
    /\ dirs = {}
    /\ outputs = {}
    /\ nextDir = 0
    /\ queue = <<>>
    /\ wpc = [w \in WorkerIds |-> "idle"]
    /\ wjob = [w \in WorkerIds |-> NoJob]
    /\ created_count = [u \in Users |-> InitialCount]
    /\ total_creations = Cardinality(Users) * InitialCount
    /\ delivered = [u \in Users |-> InitialCount]
    /\ tiling = NoTiling
    /\ tasks = EmptyBag
    /\ invoices = [u \in Users |-> {}]
    /\ payButton = [u \in Users |-> 0]

Init == InitCommon /\ W = MAX_CONCURRENT_WORKERS

(* --------------------- conversational handlers ------------------------- *)
workerVars == <<W, wpc, wjob, created_count, total_creations, delivered, tiling>>
payVars == <<invoices, payButton>>
fsVars == <<dirs, outputs, nextDir>>

\* state.set_state(s) of user u's FSMContext
SetState(u, s) == [fsm EXCEPT ![u] = s]

\* A clear that leaves the state as it was
NoClear(u) == fsm

\* state.clear() of user u's FSMContext
ClearState(u) == SetState(u, "none")

\* start_creation, up to its first Bot API call.  The coroutine that goes on
\* to set_state carries, as history, the directory of the record that was
\* pending when it was dispatched (0: none).
StartCreation(u) ==
    IF has_pending(u)
    THEN \* prompt to confirm the discard, then return
         UNCHANGED vars
    ELSE /\ HasFreeSlot
         /\ tasks' = SpawnIn(MarkUploads(u, "-"),
                             Task("start_edit", u, NoRec, pending[u].temp_dir_path,
                                  0, FALSE, 0, "-"))
         /\ UNCHANGED <<fsm, pending, fsVars, queue, workerVars, payVars>>

\* start_creation resumed after callback.message.edit_text
StartCreationResume(t, ok) ==
    /\ t.h = "start_edit"
    /\ fsm' = IF ok THEN SetState(t.u, "waiting_image") ELSE fsm
    /\ tasks' = EndTask(t)
    /\ UNCHANGED <<pending, fsVars, queue, workerVars, payVars>>

\* cancel_and_start: remove, clear, then start_creation up to its edit_text.
\* Its button is on the prompt that start_creation shows whenever a record is
\* pending (a step that changes no state), and stays in the chat.
CancelAndStart(u) ==
    /\ HasFreeSlot
    /\ pending' = RemovePending(u)
    /\ dirs' = RemoveDirs(dirs, u, TRUE)
    /\ outputs' = RemoveDirs(outputs, u, TRUE)
    /\ fsm' = ClearState(u)
    /\ tasks' = SpawnIn(MarkUploads(u, "-"), Task("start_edit", u, NoRec, 0, 0, FALSE, 0, "-"))
    /\ UNCHANGED <<nextDir, queue, workerVars, payVars>>

\* cancel_creation: clear and remove run before back_to_main's first await
CancelCreation(u) ==
    /\ fsm' = ClearState(u)
    /\ pending' = RemovePending(u)
    /\ dirs' = RemoveDirs(dirs, u, TRUE)
    /\ outputs' = RemoveDirs(outputs, u, TRUE)
    /\ tasks' = MarkUploads(u, "cancelled")
    /\ UNCHANGED <<nextDir, queue, workerVars, payVars>>

\* handle_image up to bot.download_file: the input is not an image, or
\* bot.get_file raises, or the scratch directory is created
HandleImage(u, kind, large) ==
    /\ fsm[u] = "waiting_image"
    /\ IF kind # "image"
       THEN UNCHANGED vars
       ELSE /\ nextDir < MaxDirs
            /\ HasFreeSlot
            /\ nextDir' = nextDir + 1
            /\ dirs' = dirs \cup {nextDir + 1}
            /\ tasks' = Spawn(Task("img_download", u,
                                   NewCreation(nextDir + 1, large /\ ~is_admin(u)),
                                   nextDir + 1, 0, FALSE, 0, "-"))
            /\ UNCHANGED <<fsm, pending, outputs, queue, workerVars, payVars>>

\* handle_image resumed after bot.download_file: the download raised, or
\* Image.open raised, or the record is stored
HandleImageDownloaded(t, outcome) ==
    /\ t.h = "img_download"
    /\ CASE outcome = "raises" ->
              /\ tasks' = EndTask(t)
              /\ UNCHANGED pending
         [] outcome = "undecodable" ->
              /\ tasks' = Become(t, [t EXCEPT !.h = "img_reject"])
              /\ UNCHANGED pending
         [] OTHER ->
              /\ pending' = AddPending(t.u, t.creation_data)
              /\ tasks' = Become(t, [t EXCEPT !.h = "img_answer"])
    /\ UNCHANGED <<fsm, fsVars, queue, workerVars, payVars>>

\* handle_image's decode-failure branch resumed after message.answer
HandleImageRejected(t, ok) ==
    /\ t.h = "img_reject"
    /\ dirs' = IF ok THEN dirs \ {t.temp_user_dir} ELSE dirs
    /\ outputs' = IF ok THEN outputs \ {t.temp_user_dir} ELSE outputs
    /\ tasks' = EndTask(t)
    /\ UNCHANGED <<fsm, pending, nextDir, queue, workerVars, payVars>>

\* handle_image resumed after the message.answer that shows the parts keyboard
HandleImageAnswered(t, ok) ==
    /\ t.h = "img_answer"
    /\ fsm' = IF ok THEN SetState(t.u, "waiting_parts_selection") ELSE fsm
    /\ tasks' = EndTask(t)
    /\ UNCHANGED <<pending, fsVars, queue, workerVars, payVars>>

\* handle_parts_selection up to its first Bot API call
HandlePartsSelection(u, parts) ==
    /\ fsm[u] = "waiting_parts_selection"
    /\ HasFreeSlot
    /\ IF pending[u] = NoRec
       THEN /\ tasks' = Spawn(Task("sel_missing", u, NoRec, 0, 0, FALSE, 0, "-"))
            /\ UNCHANGED pending
       ELSE LET data == [pending[u] EXCEPT !.parts = parts]
            IN /\ pending' = AddPending(u, data)
               /\ tasks' = SpawnIn(Shared(data), Task("parts_edit", u, NoRec, 0, 0, FALSE, 0, "-"))
    /\ UNCHANGED <<fsm, fsVars, queue, workerVars, payVars>>

\* the "no pending data" branch of a selection or confirmation handler,
\* resumed after callback.answer: state.clear()
SelectionMissingResume(t, ok) ==
    /\ t.h = "sel_missing"
    /\ fsm' = IF ok THEN ClearState(t.u) ELSE fsm
    /\ tasks' = EndTask(t)
    /\ UNCHANGED <<pending, fsVars, queue, workerVars, payVars>>

\* handle_parts_selection resumed after callback.message.edit_text
PartsResume(t, ok) ==
    /\ t.h = "parts_edit"
    /\ fsm' = IF ok THEN SetState(t.u, "waiting_fit_mode") ELSE fsm
    /\ tasks' = EndTask(t)
    /\ UNCHANGED <<pending, fsVars, queue, workerVars, payVars>>

\* handle_fit_mode_selection up to its first Bot API call; creation_data['parts']
\* raises KeyError, after fit_mode was stored, when no part count was chosen
HandleFitModeSelection(u, fit) ==
    /\ fsm[u] = "waiting_fit_mode"
    /\ IF pending[u] = NoRec
       THEN /\ HasFreeSlot
            /\ tasks' = Spawn(Task("sel_missing", u, NoRec, 0, 0, FALSE, 0, "-"))
            /\ UNCHANGED pending
       ELSE LET data == [pending[u] EXCEPT !.fit_mode = fit]
            IN /\ pending' = AddPending(u, data)
               /\ IF pending[u].parts = 0
                  THEN tasks' = Shared(data)
                  ELSE /\ HasFreeSlot
                       /\ tasks' = SpawnIn(Shared(data),
                                           Task("fit_edit", u, NoRec, 0, 0, FALSE, 0, "-"))
    /\ UNCHANGED <<fsm, fsVars, queue, workerVars, payVars>>

\* handle_fit_mode_selection resumed after callback.message.edit_text
FitResume(t, ok) ==
    /\ t.h = "fit_edit"
    /\ fsm' = IF ok THEN SetState(t.u, "waiting_final_confirmation") ELSE fsm
    /\ tasks' = EndTask(t)
    /\ UNCHANGED <<pending, fsVars, queue, workerVars, payVars>>

\* handle_create_now up to its first Bot API call: callback.answer of the
\* "no pending data" branch, edit_text of the priced branch, or
\* callback.message.delete of the free branch.  The "create_now" button is on
\* the creation's confirmation message and is pressed while it is there.
HandleCreateNow(u) ==
    /\ fsm[u] = "waiting_final_confirmation"
    /\ IF pending[u] = NoRec
       THEN /\ HasFreeSlot
            /\ tasks' = Spawn(Task("sel_missing", u, NoRec, 0, 0, FALSE, 0, "-"))
            /\ UNCHANGED pending
       ELSE /\ ~pending[u].button_gone
            /\ IF pending[u].parts = 0
               THEN \* creation_data['parts'] raises KeyError
                    UNCHANGED <<tasks, pending>>
               ELSE LET price == TotalPrice(created_count[u], is_admin(u),
                                            pending[u].parts, pending[u].is_large_file)
                        data == [pending[u] EXCEPT !.quoted = price]
                    IN /\ HasFreeSlot
                       /\ pending' = AddPending(u, data)
                       /\ tasks' = SpawnIn(Shared(data),
                                           Task(IF price > 0 THEN "conf_edit" ELSE "conf_delete",
                                                u, NoRec, pending[u].temp_dir_path, price,
                                                FALSE, 0, "-"))
    /\ UNCHANGED <<fsm, fsVars, queue, workerVars, payVars>>

\* The confirmation message of creation d of user u lost its "create_now" button
ButtonGone(u, d) ==
    IF pending[u] # NoRec /\ pending[u].temp_dir_path = d
    THEN [pending EXCEPT ![u].button_gone = TRUE]
    ELSE pending

\* handle_create_now's priced branch resumed after callback.message.edit_text:
\* the pay button is shown
CreateNowPriced(t, ok) ==
    /\ t.h = "conf_edit"
    /\ fsm' = IF ok THEN SetState(t.u, "waiting_payment") ELSE fsm
    /\ payButton' = IF ok THEN [payButton EXCEPT ![t.u] = t.total_price] ELSE payButton
    /\ pending' = IF ok THEN ButtonGone(t.u, t.temp_user_dir) ELSE pending
    /\ tasks' = EndTask(t)
    /\ UNCHANGED <<fsVars, queue, workerVars, invoices>>

\* add_to_queue's queue_pos = job_queue.qsize() + 1
QueuePos == Len(queue) + 1

\* add_to_queue up to bot.send_message, entered by a coroutine that joins the
\* suspended coroutines `others`: the "not found" branch ends the handler, the
\* other keeps creation_data across the send
AddToQueueStart(others, u, paid, amt, st) ==
    IF pending[u] = NoRec
    THEN tasks' = others
    ELSE tasks' = others (+) SetToBag({[queue_pos |-> QueuePos] @@
                                       Task("atq_send", u, Dict(pending[u]), 0, 0, paid, amt, st)})

\* The coroutines of handle_create_now suspended on the confirmation message of
\* creation d of user u
OnMessage(u, d) ==
    {x \in Suspended : x.h \in {"conf_edit", "conf_delete"} /\ x.u = u /\ x.temp_user_dir = d}

\* The suspended coroutines without those in the set gone
Without(gone) ==
    [x \in {y \in Suspended : y \notin gone} |-> tasks[x]]

\* handle_create_now's free branch resumed after callback.message.delete,
\* entering add_to_queue when the delete returned.  A message is deleted once:
\* every other call on it raises, which ends that handler with no effect, so
\* the handlers suspended on it end here.
CreateNowDeleted(t, ok) ==
    /\ t.h = "conf_delete"
    /\ IF ok
       THEN /\ AddToQueueStart(Without(OnMessage(t.u, t.temp_user_dir)),
                               t.u, FALSE, 0, "-")
            /\ pending' = ButtonGone(t.u, t.temp_user_dir)
       ELSE /\ tasks' = EndTask(t)
            /\ UNCHANGED pending
    /\ UNCHANGED <<fsm, fsVars, queue, workerVars, payVars>>

\* add_to_queue resumed after bot.send_message: put, remove(cleanup_files=False),
\* state.clear() run without a suspension between them
AddToQueueSent(t, ok) ==
    /\ t.h = "atq_send"
    /\ IF ok
       THEN /\ queue' = QueuePut(queue, NewJob(t.u, t.creation_data, t.is_paid, NextSeq))
            /\ pending' = RemovePending(t.u)
            /\ dirs' = RemoveDirs(dirs, t.u, FALSE)
            /\ outputs' = RemoveDirs(outputs, t.u, FALSE)
            /\ fsm' = ClearState(t.u)
       ELSE UNCHANGED <<queue, pending, dirs, outputs, fsm>>
    /\ tasks' = EndTask(t)
    /\ UNCHANGED <<nextDir, workerVars, payVars>>

\* process_payment_request: the pay button's price becomes an invoice
\* (send_invoice), the button is replaced (edit_text)
ProcessPaymentRequest(u) ==
    /\ payButton[u] # 0
    /\ IF pending[u] = NoRec
       THEN UNCHANGED payVars
       ELSE /\ invoices' = [invoices EXCEPT ![u] = @ \cup {payButton[u]}]
            /\ payButton' = [payButton EXCEPT ![u] = 0]
    /\ UNCHANGED <<fsm, pending, fsVars, queue, workerVars, tasks>>

\* successful_payment for a paid invoice (pre_checkout answers ok=True to
\* every query), entering add_to_queue
SuccessfulPayment(u, amount) ==
    /\ amount \in invoices[u]
    /\ invoices' = [invoices EXCEPT ![u] = @ \ {amount}]
    /\ IF pending[u] = NoRec
       THEN UNCHANGED tasks
       ELSE /\ HasFreeSlot
            /\ AddToQueueStart(tasks, u, TRUE, amount, fsm[u])
    /\ UNCHANGED <<fsm, pending, fsVars, queue, workerVars, payButton>>

(* ------------------------- processing_worker --------------------------- *)
handlerVars == <<fsm, pending, tasks, payVars, nextDir>>

\* the finally block: shutil.rmtree(temp_dir_path, ignore_errors=True)
Rmtree(ds, d) == ds \ {d}

JobDir(job) == job.creation_data.temp_dir_path

\* queue.get() returns a job; the try block up to the first update_progress:
\* the reads of parts and fit_mode (KeyError when unset), then output_dir.mkdir()
\* (raises when the scratch directory is gone or output/ already exists)
WorkerGet(w) ==
    /\ w <= W
    /\ wpc[w] = "idle"
    /\ queue # <<>>
    /\ LET job == Head(queue)
           data == job.creation_data
           started == /\ data.parts # 0
                      /\ data.fit_mode # "unset"
                      /\ data.temp_dir_path \in dirs
                      /\ data.temp_dir_path \notin outputs
       IN /\ queue' = Tail(queue)
          /\ wjob' = [wjob EXCEPT ![w] = job]
          /\ wpc' = [wpc EXCEPT ![w] = IF started THEN "processing" ELSE "failmsg"]
          /\ outputs' = IF started THEN outputs \cup {data.temp_dir_path} ELSE outputs
    /\ UNCHANGED <<handlerVars, dirs, W, created_count, total_creations, delivered, tiling>>

\* An increment whose write is lost
LostIncrement(u) == created_count

\* user_db.increment_creations: user["created_count"] += 1
IncrementCreations(u) == [created_count EXCEPT ![u] = @ + 1]

\* From the first update_progress to send_document.  progress_ok: the
\* edit_message_text of the two update_progress calls returned; update_progress
\* swallows its failure, so it changes nothing.  status_ok: the two bare
\* edit_message_text calls on the progress message ("packing", "sending")
\* returned; they are not inside update_progress and their failure reaches the
\* except block.  ok: the tiling (asyncio.to_thread), the zip and send_document
\* returned, which needs the scratch directory and its output/.  When nothing
\* raised, increment_creations runs.
WorkerProcessed(w, progress_ok, status_ok, ok) ==
    /\ wpc[w] = "processing"
    /\ ok => JobDir(wjob[w]) \in outputs
    /\ LET sent == status_ok /\ ok
       IN /\ wpc' = [wpc EXCEPT ![w] = IF sent THEN "notify" ELSE "failmsg"]
          /\ created_count' = IF sent THEN IncrementCreations(wjob[w].user_id) ELSE created_count
          /\ total_creations' = IF sent THEN total_creations + 1 ELSE total_creations
          /\ delivered' = IF sent THEN [delivered EXCEPT ![wjob[w].user_id] = @ + 1] ELSE delivered
          /\ wjob' = [wjob EXCEPT ![w].archive_sent = sent]
    /\ UNCHANGED <<handlerVars, queue, dirs, outputs, W, tiling>>

\* the finally block, and the loop going back to queue.get() unless an
\* exception leaves the coroutine
WorkerFinally(w, next) ==
    /\ dirs' = Rmtree(dirs, JobDir(wjob[w]))
    /\ outputs' = Rmtree(outputs, JobDir(wjob[w]))
    /\ wjob' = [wjob EXCEPT ![w] = NoJob]
    /\ wpc' = [wpc EXCEPT ![w] = next]

\* delete_message and the closing send_message returned, or one raised
WorkerNotified(w, ok) ==
    /\ wpc[w] = "notify"
    /\ IF ok
       THEN WorkerFinally(w, "idle")
       ELSE /\ wpc' = [wpc EXCEPT ![w] = "failmsg"]
            /\ UNCHANGED <<dirs, outputs, wjob>>
    /\ UNCHANGED <<handlerVars, queue, W, created_count, total_creations, delivered, tiling>>

\* the except block's send_message returned, or raised: then the exception
\* leaves the while loop after the finally block and the worker task ends
WorkerFailMsg(w, ok) ==
    /\ wpc[w] = "failmsg"
    /\ WorkerFinally(w, IF ok THEN "idle" ELSE "dead")
    /\ UNCHANGED <<handlerVars, queue, W, created_count, total_creations, delivered, tiling>>

(* ------------------------------- Next ---------------------------------- *)
ImageKinds == {"not_image", "get_file_raises", "image"}
DownloadOutcomes == {"raises", "undecodable", "stored"}
Amounts == {TotalPrice(c, FALSE, p, l) : c \in {0, FREE_CREATIONS}, p \in PartsInputs, l \in BOOLEAN}

Next ==
    \/ \E u \in Users : StartCreation(u)
    \/ \E t \in Suspended, ok \in BOOLEAN : StartCreationResume(t, ok)
    \/ \E u \in Users : CancelAndStart(u)
    \/ \E u \in Users : CancelCreation(u)
    \/ \E u \in Users, kind \in ImageKinds, large \in LargeInputs : HandleImage(u, kind, large)
    \/ \E t \in Suspended, outcome \in DownloadOutcomes : HandleImageDownloaded(t, outcome)
    \/ \E t \in Suspended, ok \in BOOLEAN : HandleImageRejected(t, ok)
    \/ \E t \in Suspended, ok \in BOOLEAN : HandleImageAnswered(t, ok)
    \/ \E u \in Users, parts \in PartsInputs : HandlePartsSelection(u, parts)
    \/ \E t \in Suspended, ok \in BOOLEAN : SelectionMissingResume(t, ok)
    \/ \E t \in Suspended, ok \in BOOLEAN : PartsResume(t, ok)
    \/ \E u \in Users, fit \in FitInputs : HandleFitModeSelection(u, fit)
    \/ \E t \in Suspended, ok \in BOOLEAN : FitResume(t, ok)
    \/ \E u \in Users : HandleCreateNow(u)
    \/ \E t \in Suspended, ok \in BOOLEAN : CreateNowPriced(t, ok)
    \/ \E t \in Suspended, ok \in BOOLEAN : CreateNowDeleted(t, ok)
    \/ \E t \in Suspended, ok \in BOOLEAN : AddToQueueSent(t, ok)
    \/ \E u \in Users : ProcessPaymentRequest(u)
    \/ \E u \in Users, amount \in Amounts : SuccessfulPayment(u, amount)
    \/ \E w \in WorkerIds : WorkerGet(w)
    \/ \E w \in WorkerIds, progress_ok \in BOOLEAN, status_ok \in BOOLEAN, ok \in BOOLEAN :
           WorkerProcessed(w, progress_ok, status_ok, ok)
    \/ \E w \in WorkerIds, ok \in BOOLEAN : WorkerNotified(w, ok)
    \/ \E w \in WorkerIds, ok \in BOOLEAN : WorkerFailMsg(w, ok)

Spec == Init /\ [][Next]_vars

\* the same program started with any pool size up to MaxWorkers
InitW == InitCommon /\ W \in 1..MaxWorkers
SpecW == InitW /\ [][Next]_vars

(* ------------------------- the worker pool ----------------------------- *)
\* The program started with any pool size up to MaxWorkers: the wizard and
\* the payment with their Bot API calls returning, and the workers with
\* every outcome of their steps
PoolNext ==
    \/ \E u \in Users : StartCreation(u)
    \/ \E t \in Suspended : StartCreationResume(t, TRUE)
    \/ \E u \in Users, large \in LargeInputs : HandleImage(u, "image", large)
    \/ \E t \in Suspended : HandleImageDownloaded(t, "stored")
    \/ \E t \in Suspended : HandleImageAnswered(t, TRUE)
    \/ \E u \in Users, parts \in PartsInputs : HandlePartsSelection(u, parts)
    \/ \E t \in Suspended : PartsResume(t, TRUE)
    \/ \E u \in Users, fit \in FitInputs : HandleFitModeSelection(u, fit)
    \/ \E t \in Suspended : FitResume(t, TRUE)
    \/ \E u \in Users : HandleCreateNow(u)
    \/ \E t \in Suspended : CreateNowPriced(t, TRUE)
    \/ \E t \in Suspended : CreateNowDeleted(t, TRUE)
    \/ \E t \in Suspended : AddToQueueSent(t, TRUE)
    \/ \E u \in Users : ProcessPaymentRequest(u)
    \/ \E u \in Users, amount \in Amounts : SuccessfulPayment(u, amount)
    \/ \E w \in WorkerIds : WorkerGet(w)
    \/ \E w \in WorkerIds, progress_ok \in BOOLEAN, status_ok \in BOOLEAN, ok \in BOOLEAN :
           WorkerProcessed(w, progress_ok, status_ok, ok)
    \/ \E w \in WorkerIds, ok \in BOOLEAN : WorkerNotified(w, ok)
    \/ \E w \in WorkerIds, ok \in BOOLEAN : WorkerFailMsg(w, ok)

SpecPool == InitW /\ [][PoolNext]_vars

(* --------------------- the workers, fairly scheduled ------------------- *)
\* The event loop resumes every worker whose await is over: queue.get() on a
\* queue that holds a job returns, and every Bot API call, the tiling thread
\* and the sleep return or raise.  Nothing obliges a user to act.
WorkerStep ==
    \/ \E w \in WorkerIds : WorkerGet(w)
    \/ \E w \in WorkerIds, progress_ok \in BOOLEAN, status_ok \in BOOLEAN, ok \in BOOLEAN :
           WorkerProcessed(w, progress_ok, status_ok, ok)
    \/ \E w \in WorkerIds, ok \in BOOLEAN : WorkerNotified(w, ok)
    \/ \E w \in WorkerIds, ok \in BOOLEAN : WorkerFailMsg(w, ok)

SpecFair == Init /\ [][PoolNext]_vars /\ WF_vars(WorkerStep)

(* ------------------------ heavy_processing_task ------------------------ *)
total_content_width == PIECE_WIDTH * GRID_COLS
total_content_height(parts) == PIECE_HEIGHT * (parts \div GRID_COLS)

\* img_aspect <= content_aspect, for the image size <<width, height>>: the two
\* float quotients compare as the cross products do
NarrowerThanCanvas(size, parts) ==
    size[1] * total_content_height(parts) <= total_content_width * size[2]

\* int(total_content_width / img_aspect), a height, and
\* int(total_content_height * img_aspect), a width: int() truncates, and for
\* the image sizes up to MaxSide + 1 the float results equal these integer
\* quotients
HeightFromWidth(size) == (total_content_width * size[2]) \div size[1]
WidthFromHeight(size, parts) == (total_content_height(parts) * size[1]) \div size[2]

\* <<new_width, new_height>> as heavy_processing_task computes them
NewSize(size, parts, fit_mode) ==
    LET narrow == NarrowerThanCanvas(size, parts)
    IN IF fit_mode = "cover"
       THEN <<IF ~narrow THEN total_content_width ELSE WidthFromHeight(size, parts),
              IF narrow THEN total_content_height(parts) ELSE HeightFromWidth(size)>>
       ELSE <<IF narrow THEN total_content_width ELSE WidthFromHeight(size, parts),
              IF ~narrow THEN total_content_height(parts) ELSE HeightFromWidth(size)>>

\* The decimal digits of n, most significant first
RECURSIVE Digits(_)
Digits(n) == IF n < 10 THEN <<n>> ELSE Append(Digits(n \div 10), n % 10)

\* A format that does not pad
Unpadded(n, width) == Digits(n)

\* The format spec 0<width>d: the digits of n, zero-filled on the left up to
\* width characters, longer numbers left as they are
ZeroPadded(n, width) ==
    LET d == Digits(n)
    IN IF Len(d) >= width THEN d ELSE [k \in 1..(width - Len(d)) |-> 0] \o d

\* The i-th (0-based) pass of the tiling loop: the box cropped from
\* source_canvas, the size of the output image, where the piece is pasted on
\* it, and the path output_dir / f"story_{i + 1:02d}.png": its directory and
\* the number in the file name as its sequence of digit characters
OutputFile(i) ==
    LET row == i \div GRID_COLS
        col == i % GRID_COLS
        sx == col * PIECE_WIDTH
        sy == row * PIECE_HEIGHT
    IN [parent |-> "output",
        name |-> ZeroPadded(i + 1, 2),
        crop |-> <<sx, sy, sx + PIECE_WIDTH, sy + PIECE_HEIGHT>>,
        size |-> <<TARGET_WIDTH, TARGET_HEIGHT>>,
        paste |-> <<(TARGET_WIDTH - PIECE_WIDTH) \div 2, (TARGET_HEIGHT - PIECE_HEIGHT) \div 2>>]

\* output_files after the loop "for i in range(parts)"
OutputFiles(parts) == [k \in 1..parts |-> OutputFile(k - 1)]

\* A call of heavy_processing_task that has not resized the image yet
Tiling(size, parts, fit_mode) ==
    [image_size |-> size, parts |-> parts, fit_mode |-> fit_mode,
     new_size |-> <<0, 0>>, offset |-> <<0, 0>>, output_files |-> <<>>,
     zip |-> <<>>]

\* heavy_processing_task: the resize, the centring on source_canvas (// rounds
\* down, also below zero) and one output file for each part
HeavyProcessingTask ==
    /\ tiling # NoTiling
    /\ tiling.output_files = <<>>
    /\ LET new == NewSize(tiling.image_size, tiling.parts, tiling.fit_mode)
       IN tiling' = [tiling EXCEPT
                        !.new_size = new,
                        !.offset = <<(total_content_width - new[1]) \div 2,
                                     (total_content_height(tiling.parts) - new[2]) \div 2>>,
                        !.output_files = OutputFiles(tiling.parts)]
    /\ UNCHANGED <<fsm, pending, fsVars, queue, W, wpc, wjob, created_count,
                   total_creations, delivered, tasks, payVars>>

\* One call of heavy_processing_task for every image size up to MaxSide x
\* MaxSide, every part count of the keyboard and both fit modes
ScaleInit ==
    /\ fsm = [u \in Users |-> "none"]
    /\ pending = [u \in Users |-> NoRec]
    /\ dirs = {}
    /\ outputs = {}
    /\ nextDir = 0
    /\ queue = <<>>
    /\ W = MAX_CONCURRENT_WORKERS
    /\ wpc = [w \in WorkerIds |-> "idle"]
    /\ wjob = [w \in WorkerIds |-> NoJob]
    /\ created_count = [u \in Users |-> InitialCount]
    /\ total_creations = Cardinality(Users) * InitialCount
    /\ delivered = [u \in Users |-> InitialCount]
    /\ tiling \in {Tiling(<<w, h>>, parts, fit) :
                      w \in 1..MaxSide, h \in 1..MaxSide, parts \in AllParts,
                      fit \in {"cover", "contain"}}
    /\ tasks = EmptyBag
    /\ invoices = [u \in Users |-> {}]
    /\ payButton = [u \in Users |-> 0]

\* The image a saved output file holds
Content(file) == [crop |-> file.crop, size |-> file.size, paste |-> file.paste]

\* ZIP_DEFLATED: the stored form of an entry's bytes, and what reading the
\* entry gives back
Deflate(bytes) == [deflated |-> bytes]
Inflate(stored) == stored.deflated

\* An entry name that keeps the directory of the path
WithParent(file) == <<file.parent, file.name>>

\* file_path.name: the last component of the path
BaseName(file) == <<file.name>>

\* The worker's archiving loop: zipf.write(file_path, arcname=file_path.name)
\* for each path returned by heavy_processing_task, in that order
ZipFiles ==
    /\ tiling # NoTiling
    /\ tiling.output_files # <<>>
    /\ tiling.zip = <<>>
    /\ tiling' = [tiling EXCEPT !.zip =
                     [k \in 1..Len(tiling.output_files) |->
                         [arcname |-> BaseName(tiling.output_files[k]),
                          data |-> Deflate(Content(tiling.output_files[k]))]]]
    /\ UNCHANGED <<fsm, pending, fsVars, queue, W, wpc, wjob, created_count,
                   total_creations, delivered, tasks, payVars>>

\* ZipFile.extractall: the files an archive unpacks to, in entry order
Extract(zip) == [k \in 1..Len(zip) |-> [path |-> zip[k].arcname, bytes |-> Inflate(zip[k].data)]]

ScaleNext ==
    \/ HeavyProcessingTask
    \/ ZipFiles

SpecScale == ScaleInit /\ [][ScaleNext]_vars

(* ----------------------- the pricing of a creation --------------------- *)
\* The wizard from the upload to the confirmation, its Bot API calls
\* returning, for users with any created_count up to MaxCount, any file size
\* and any part count of the keyboard
PriceInit ==
    /\ fsm = [u \in Users |-> "waiting_image"]
    /\ pending = [u \in Users |-> NoRec]
    /\ dirs = {}
    /\ outputs = {}
    /\ nextDir = 0
    /\ queue = <<>>
    /\ W = MAX_CONCURRENT_WORKERS
    /\ wpc = [w \in WorkerIds |-> "idle"]
    /\ wjob = [w \in WorkerIds |-> NoJob]
    /\ created_count \in [Users -> 0..MaxCount]
    /\ total_creations = created_count[1] + created_count[2]
    /\ delivered = created_count
    /\ tiling = NoTiling
    /\ tasks = EmptyBag
    /\ invoices = [u \in Users |-> {}]
    /\ payButton = [u \in Users |-> 0]

PriceNext ==
    \/ \E u \in Users, large \in BOOLEAN : HandleImage(u, "image", large)
    \/ \E t \in Suspended : HandleImageDownloaded(t, "stored")
    \/ \E t \in Suspended : HandleImageAnswered(t, TRUE)
    \/ \E u \in Users, parts \in AllParts : HandlePartsSelection(u, parts)
    \/ \E t \in Suspended : PartsResume(t, TRUE)
    \/ \E u \in Users, fit \in FitInputs : HandleFitModeSelection(u, fit)
    \/ \E t \in Suspended : FitResume(t, TRUE)
    \/ \E u \in Users : HandleCreateNow(u)

SpecPrice == PriceInit /\ [][PriceNext]_vars

(* ------------------------------ claims --------------------------------- *)
\* C1: every existing scratch directory is owned by exactly one of a record of
\* the pending store or one job that is queued or being processed; never by
\* both, by two jobs, or by neither.  A directory that handle_image has made
\* and not yet stored or removed is left out.
DirOwnedByExactlyOne ==
    \A d \in dirs :
        LET byPending == {u \in Users : pending[u].temp_dir_path = d}
            byQueue == {i \in 1..Len(queue) : JobDir(queue[i]) = d}
            byWorker == {w \in WorkerIds : wjob[w] # NoJob /\ JobDir(wjob[w]) = d}
            uploading == {t \in Suspended : /\ t.h \in {"img_download", "img_reject"}
                                            /\ t.temp_user_dir = d}
        IN \/ uploading # {}
           \/ Cardinality(byPending) + Cardinality(byQueue) + Cardinality(byWorker) = 1

\* C1, the shared case: a scratch directory that exists and is referenced by
\* two queued jobs
DirOfTwoJobs ==
    \E i, j \in 1..Len(queue) :
        i < j /\ JobDir(queue[i]) = JobDir(queue[j]) /\ JobDir(queue[i]) \in dirs

\* C2: the temp directory of every job put on job_queue exists when the job is
\* enqueued and until the worker that processes the job removes it
JobDirExistsUntilWorkerRemoves ==
    /\ \A i \in 1..Len(queue) : JobDir(queue[i]) \in dirs
    /\ \A w \in WorkerIds : wjob[w] # NoJob => JobDir(wjob[w]) \in dirs

\* C3: a failure raised while a job is processed never ends the worker loop
WorkerLoopNeverEnds ==
    \A w \in WorkerIds : wpc[w] # "dead"

\* C4: with one worker, jobs are processed one at a time and in the order of
\* their submission: the job being processed was submitted before every queued
\* job, and the queue holds the jobs in the order of their submission
InSubmissionOrder ==
    /\ \A i, j \in 1..Len(queue) : i < j => queue[i].seq < queue[j].seq
    /\ \A w \in WorkerIds :
          wjob[w] # NoJob => \A i \in 1..Len(queue) : wjob[w].seq < queue[i].seq
    /\ Cardinality({w \in WorkerIds : wjob[w] # NoJob}) <= 1

\* C4, its case: user 2's job was submitted while user 1's job was unfinished;
\* user 1's job was delivered, and the worker is now processing user 2's job
SecondJobAfterFirst ==
    \E w \in WorkerIds :
        /\ wpc[w] = "processing"
        /\ wjob[w].seq = 2
        /\ wjob[w].user_id = 2
        /\ created_count[1] = InitialCount + 1
        /\ created_count[2] = InitialCount
        /\ queue = <<>>

\* C5: whenever handle_image stores a record for a user, that user has no
\* pending record at that moment
HandleImageNeverOverwrites ==
    [][\A t \in Suspended :
          HandleImageDownloaded(t, "stored") => pending[t.u] = NoRec]_vars

\* C6: the amount of the successful payment that promotes a job equals the
\* price quoted at the confirmation of the record that is promoted
PaidAmountIsQuotedPrice ==
    [][\A t \in Suspended :
          t.h = "atq_send" /\ t.is_paid /\ AddToQueueSent(t, TRUE)
              => t.amount = t.creation_data.quoted]_vars

\* C7: every payment-success notification promotes the user's pending record:
\* the record is there, one job is put on the queue, the record is removed
\* without deleting its directory, and the user's state becomes Idle
PaymentSuccessPromotes ==
    [][/\ \A u \in Users, amount \in Amounts :
             SuccessfulPayment(u, amount) => pending[u] # NoRec
       /\ \A t \in Suspended, ok \in BOOLEAN :
             t.h = "atq_send" /\ t.is_paid /\ AddToQueueSent(t, ok)
                 => /\ Len(queue') = Len(queue) + 1
                    /\ pending[t.u] # NoRec
                    /\ pending'[t.u] = NoRec
                    /\ dirs' = dirs
                    /\ fsm'[t.u] = "none"]_vars

\* C8: a confirmation whose Bot API calls return ends, when the price is zero,
\* with exactly one job of the creation enqueued, the pending record removed
\* and the state Idle; when the price is nonzero, with the state
\* AwaitingPayment, the pending record kept and no job of the creation
ConfirmationOutcome ==
    [][/\ \A t \in Suspended :
             t.h = "conf_delete" /\ CreateNowDeleted(t, TRUE)
                 => /\ pending[t.u] # NoRec
                    /\ pending[t.u].temp_dir_path = t.temp_user_dir
       /\ \A t \in Suspended :
             t.h = "atq_send" /\ ~t.is_paid /\ AddToQueueSent(t, TRUE)
                 => /\ Cardinality({i \in 1..Len(queue') :
                                      JobDir(queue'[i]) = t.creation_data.temp_dir_path}) = 1
                    /\ \A w \in WorkerIds :
                          wjob[w] # NoJob => JobDir(wjob[w]) # t.creation_data.temp_dir_path
                    /\ pending[t.u] # NoRec
                    /\ pending'[t.u] = NoRec
                    /\ fsm'[t.u] = "none"
       /\ \A t \in Suspended :
             t.h = "conf_edit" /\ CreateNowPriced(t, TRUE)
                 => /\ fsm'[t.u] = "waiting_payment"
                    /\ pending'[t.u] # NoRec
                    /\ pending'[t.u].temp_dir_path = t.temp_user_dir
                    /\ \A j \in LiveJobs : JobDir(j) # t.temp_user_dir]_vars

\* C9: a payment-success notification that arrives outside AwaitingPayment
\* leaves the conversational state, the pending store, the job queue and the
\* scratch directories unchanged
UnexpectedPaymentIsNoOp ==
    [][\A t \in Suspended, ok \in BOOLEAN :
          t.h = "atq_send" /\ t.is_paid /\ t.st # "waiting_payment" /\ AddToQueueSent(t, ok)
              => UNCHANGED <<fsm, pending, queue, dirs>>]_vars

\* C10: cancel_creation leaves the user in Idle with no pending record, and
\* the directory of the record it removed no longer exists
CancelLeavesIdle ==
    [][\A u \in Users :
          CancelCreation(u)
              => /\ fsm'[u] = "none"
                 /\ pending'[u] = NoRec
                 /\ pending[u] # NoRec => pending[u].temp_dir_path \notin dirs']_vars

\* C10, its case: user 1 cancelled the one creation there ever was, after its
\* invoice was sent and before any payment: the user is Idle, the record and
\* its directory are gone, and no job was made of it
CancelledPricedCreation ==
    /\ nextDir = 1
    /\ dirs = {}
    /\ fsm[1] = "none"
    /\ pending[1] = NoRec
    /\ invoices[1] # {}
    /\ queue = <<>>
    /\ \A w \in WorkerIds : wjob[w] = NoJob
    /\ created_count[1] = InitialCount
    /\ tasks = EmptyBag

\* C11: cancel_creation leaves the job queue unchanged and deletes the temp
\* directory of no job that is queued or being processed
CancelSparesJobs ==
    [][\A u \in Users :
          CancelCreation(u)
              => /\ queue' = queue
                 /\ wjob' = wjob
                 /\ \A j \in LiveJobs : JobDir(j) \in dirs => JobDir(j) \in dirs']_vars

\* C11, its case: user 1's first job was delivered and its worker has not yet
\* reached the finally block; the user's next creation, confirmed after the
\* delivery at the price of a third creation and invoiced, was cancelled: its
\* directory is gone and the job's directory is still there
CancelAfterPromotion ==
    /\ nextDir = 2
    /\ dirs = {1}
    /\ wpc[1] = "notify"
    /\ wjob[1].user_id = 1
    /\ JobDir(wjob[1]) = 1
    /\ queue = <<>>
    /\ fsm[1] = "none"
    /\ pending[1] = NoRec
    /\ pending[2] = NoRec
    /\ created_count[1] = InitialCount + 1
    /\ invoices[1] = {PRICE_AFTER_2_FREE}
    /\ tasks = EmptyBag

\* C12: a part-count selection, fit-mode selection, confirmation or promotion
\* that finds no pending record for the user ends, when its Bot API call
\* returns, with the user's state Idle, no pending record created and no job
\* enqueued
MissingPendingResetsToIdle ==
    [][/\ \A t \in Suspended :
             t.h = "sel_missing" /\ SelectionMissingResume(t, TRUE)
                 => fsm'[t.u] = "none" /\ pending' = pending /\ queue' = queue
       /\ \A t \in Suspended :
             t.h = "conf_delete" /\ pending[t.u] = NoRec /\ CreateNowDeleted(t, TRUE)
                 => fsm'[t.u] = "none" /\ pending' = pending /\ queue' = queue
       /\ \A u \in Users, amount \in Amounts :
             pending[u] = NoRec /\ SuccessfulPayment(u, amount)
                 => fsm'[u] = "none" /\ pending' = pending /\ queue' = queue]_vars

\* C13: a start_creation request for a user who has a pending record leaves
\* the record, its directory and the user's state unchanged, and its coroutine
\* never sets the state to AwaitingImage: every start_creation that reaches
\* set_state was dispatched for a user with no pending record
StartWithPendingRejected ==
    [][/\ \A u \in Users :
             pending[u] # NoRec /\ StartCreation(u) => UNCHANGED <<pending, dirs, fsm>>
       /\ \A t \in Suspended, ok \in BOOLEAN :
             t.h = "start_edit" /\ StartCreationResume(t, ok) => t.temp_user_dir = 0]_vars

\* C13, its case: user 1 has a pending record with its directory and awaits
\* payment, and no coroutine is in flight: a start_creation request in this
\* state is the step that changes nothing
StartRequestWithPending ==
    /\ pending[1] # NoRec
    /\ pending[1].temp_dir_path \in dirs
    /\ fsm[1] = "waiting_payment"
    /\ tasks = EmptyBag
    /\ ENABLED StartCreation(1)

PriceIsSumOfAddOns ==
    [][\A u \in Users :
          HandleCreateNow(u) /\ pending[u] # NoRec /\ pending[u].parts # 0
              => pending'[u].quoted =
                     IF u \in ADMIN_IDS THEN 0
                     ELSE (IF created_count[u] >= 2 THEN 10 ELSE 0)
                          + (IF pending[u].parts = 21 THEN 15 ELSE 0)
                          + (IF pending[u].is_large_file THEN 10 ELSE 0)]_vars

\* C15, its case: user 1, with two creations made, confirmed a 21-part creation
\* of a large file and was quoted every add-on; the privileged user 2, with a
\* 21-part creation, was quoted nothing
AllAddOnsQuoted ==
    /\ created_count[1] = 2
    /\ pending[1] # NoRec
    /\ pending[1].parts = 21
    /\ pending[1].is_large_file
    /\ pending[1].quoted = 35
    /\ created_count[2] = 2
    /\ pending[2] # NoRec
    /\ pending[2].parts = 21
    /\ pending[2].quoted = 0

\* The sum of user["created_count"] over the users in user_db.data
RECURSIVE SumCreated(_)
SumCreated(S) ==
    IF S = {} THEN 0
    ELSE LET u == CHOOSE x \in S : TRUE IN created_count[u] + SumCreated(S \ {u})

\* C16: in every reachable state, with any number of workers, each user's
\* created_count is the number of archives delivered to that user, and
\* total_creations is the sum of the users' counts: one increment for each
\* successful delivery, none for a job that failed, none lost.
CountersMatchDeliveries ==
    /\ \A u \in Users : created_count[u] = delivered[u]
    /\ total_creations = SumCreated(Users)

\* Two workers are both past a successful send_document, one job of each user,
\* and both increments are in the counters
TwoWorkersDelivered ==
    /\ W = 2
    /\ wpc[1] = "notify" /\ wpc[2] = "notify"
    /\ wjob[1].user_id # wjob[2].user_id
    /\ \A u \in Users : created_count[u] = InitialCount + 1
    /\ total_creations = Cardinality(Users) * InitialCount + 2

\* C17: a failure to update the progress message while a job is processed
\* (update_progress, or the "packing" / "sending" status edits) is swallowed:
\* when the tiling, the archive and send_document themselves succeed, the job
\* is delivered and no failure message is sent.
ProgressFailureSwallowed ==
    [][\A w \in WorkerIds, progress_ok \in BOOLEAN, status_ok \in BOOLEAN :
          WorkerProcessed(w, progress_ok, status_ok, TRUE) => wpc'[w] = "notify"]_vars

\* C18: when handle_image returns, on any path, the scratch directory it
\* created is referenced by the user's pending creation or is deleted; after a
\* decode failure it is deleted and no pending creation was stored.
UploadDirOwnedOrDeleted ==
    [][\A t \in Suspended :
          LET d == t.temp_user_dir
              returned == \/ HandleImageDownloaded(t, "raises")
                          \/ \E ok \in BOOLEAN : HandleImageRejected(t, ok)
                          \/ \E ok \in BOOLEAN : HandleImageAnswered(t, ok)
          IN /\ returned => d \notin dirs' \/ pending'[t.u].temp_dir_path = d
             /\ (\E ok \in BOOLEAN : HandleImageRejected(t, ok)) =>
                    d \notin dirs' /\ pending' = pending]_vars

\* C19: in cover mode the resized image covers the whole canvas, for every
\* source size and every part count: new_width >= 3 * 1080 and
\* new_height >= (parts / 3) * 1342.
CoverFillsCanvas ==
    (tiling # NoTiling /\ tiling.output_files # <<>> /\ tiling.fit_mode = "cover") =>
        /\ tiling.new_size[1] >= 3 * 1080
        /\ tiling.new_size[2] >= (tiling.parts \div 3) * 1342

\* C20: in contain mode the resized image fits within the canvas, for every
\* source size and every part count: new_width <= 3 * 1080 and
\* new_height <= (parts / 3) * 1342.
ContainFitsCanvas ==
    (tiling # NoTiling /\ tiling.output_files # <<>> /\ tiling.fit_mode = "contain") =>
        /\ tiling.new_size[1] <= 3 * 1080
        /\ tiling.new_size[2] <= (tiling.parts \div 3) * 1342

\* String order of two file names that differ only in their digits
NameBefore(a, b) ==
    \/ \E k \in 1..Len(a) :
          /\ k <= Len(b)
          /\ \A j \in 1..(k - 1) : a[j] = b[j]
          /\ a[k] < b[k]
    \/ Len(a) < Len(b) /\ \A j \in 1..Len(a) : a[j] = b[j]

\* C21: for every part count, heavy_processing_task returns exactly that many
\* files; the i-th (0-based) is a 1080x1920 frame holding the canvas cell of
\* row i / 3 and column i % 3 and is numbered i + 1 on two digits, so the list
\* is strictly ordered by file name.
TilesNumberedInOrder ==
    (tiling # NoTiling /\ tiling.output_files # <<>>) =>
        LET files == tiling.output_files
        IN /\ Len(files) = tiling.parts
           /\ \A k \in 1..Len(files) :
                 LET i == k - 1
                 IN /\ files[k].size = <<1080, 1920>>
                    /\ files[k].crop = <<(i % 3) * 1080, (i \div 3) * 1342,
                                         (i % 3) * 1080 + 1080, (i \div 3) * 1342 + 1342>>
                    /\ files[k].name = <<(i + 1) \div 10, (i + 1) % 10>>
           /\ \A k \in 1..(Len(files) - 1) : NameBefore(files[k].name, files[k + 1].name)

\* The 21 frames of the largest wall were written: story_09 is followed by
\* story_10 and the last one is story_21
TwentyOneTiles ==
    /\ tiling # NoTiling
    /\ tiling.parts = 21
    /\ Len(tiling.output_files) = 21
    /\ tiling.output_files[10].name = <<1, 0>>
    /\ tiling.output_files[21].name = <<2, 1>>

EveryJobCompletes ==
    \A d \in DirIds :
        (\E j \in LiveJobs : JobDir(j) = d) ~>
            ((\A j \in LiveJobs : JobDir(j) # d) /\ d \notin dirs)

\* Half of d, rounded toward zero
TruncHalf(d) == IF d >= 0 THEN d \div 2 ELSE -((-d) \div 2)

\* C24: the resized image is pasted at the offsets (CanvasW - scaledW) / 2 and
\* (CanvasH - scaledH) / 2 rounded toward zero, for every source size and both
\* fit modes, also when the difference is negative and odd.
OffsetsTruncated ==
    (tiling # NoTiling /\ tiling.output_files # <<>>) =>
        /\ tiling.offset[1] = TruncHalf(3 * 1080 - tiling.new_size[1])
        /\ tiling.offset[2] = TruncHalf((tiling.parts \div 3) * 1342 - tiling.new_size[2])

\* C25: every job put on the queue carries a complete creation record: its
\* part count is one of 3, 6, ..., 21 and its fit mode is cover or contain,
\* whatever triggers led to its promotion.
QueuedJobsComplete ==
    \A j \in LiveJobs :
        /\ j.creation_data.parts \in {3, 6, 9, 12, 15, 18, 21}
        /\ j.creation_data.fit_mode \in {"cover", "contain"}

\* C26: a non-privileged user gets at most two creations delivered whose
\* quoted price did not include the base price: a job delivered when the user
\* already has two creations was quoted the base price, also when it was
\* confirmed while earlier jobs were still queued or being processed.
AtMostTwoFreeCreations ==
    [][\A w \in WorkerIds :
          LET job == wjob[w]
              u == job.user_id
          IN (/\ wpc[w] = "processing"
              /\ wpc'[w] = "notify"
              /\ u \notin ADMIN_IDS
              /\ created_count[u] >= 2)
             => job.quoted >= 10]_vars

\* C27: for every processed job the user receives exactly one terminal
\* outcome, the archive or the failure message: when a job ends in the except
\* block, the failure message is sent exactly when no archive was delivered
\* (a sent failure message leaves the worker in its loop, a raising one ends it).
OneTerminalOutcome ==
    [][\A w \in WorkerIds :
          (wpc[w] = "failmsg" /\ wjob'[w] = NoJob)
             => (wpc'[w] = "idle" <=> ~wjob[w].archive_sent)]_vars

\* C28: once cancel_creation has run for a user, no pending creation of that
\* user appears before the user asks to start a creation again, also when a
\* handle_image of that user was suspended while the cancellation ran.
NothingAppearsAfterCancel ==
    [][\A u \in Users :
          (/\ pending[u] = NoRec
           /\ \E t \in Suspended : t.u = u /\ t.st = "cancelled")
             => pending'[u] = NoRec]_vars

\* C29: the queue position announced by add_to_queue is the position the job
\* takes when it is put, under concurrent promotions by different users: a job
\* put behind jobs of other users only was announced the place it takes.
AnnouncedPositionIsTaken ==
    [][\A t \in Suspended :
          (/\ t.h = "atq_send"
           /\ AddToQueueSent(t, TRUE)
           /\ queue # <<>>
           /\ \A i \in 1..Len(queue) : queue[i].user_id # t.u)
             => t.queue_pos = Len(queue')]_vars

====
